---------------------------- MODULE Spec2Model ----------------------------
(***************************************************************************)
(* ztrade-mcp: the asynchronous task registry (TaskManager), its progress  *)
(* estimator, the background workers of run_backtest, run_backtest_managed *)
(* and download_kline, and the task polling tools.                         *)
(*                                                                         *)
(* The registry is a Go map from id to *Task.  Task records live on the    *)
(* heap: `heap' is the sequence of every Task ever allocated by CreateTask *)
(* and `tasks' maps an id to the index of the record the map holds for it. *)
(* A *Task is an index into `heap'.  The live-trading tools (start_trade,   *)
(* stop_trade, trade_status) keep their instances the same way: `trades'   *)
(* maps a trade id to an index into `instances'.                           *)
(***************************************************************************)
EXTENDS Integers, Sequences, FiniteSets, TLC

VARIABLES
    tasks,      \* TaskManager.tasks: id -> index in heap of the *Task held
    heap,       \* every Task allocated so far (a *Task is an index here)
    now,        \* the wall clock read by time.Now(), in seconds
    worker,     \* the background goroutine of each asynchronous submit
    est,        \* the estimator goroutine, its ticker and its done channel
    ppc,        \* the polling handler's position
    pref,       \* the *Task the polling handler got from GetTask
    resp,       \* the response the polling handler is building
    psnap,      \* history: the Task's value when GetTask returned it
    pseen,      \* history: the values the Task has had since GetTask
    call,       \* a function evaluated on its own: its arguments and locals
    trades,     \* manager.trades: trade id -> index in instances
    instances,  \* every tradeInstance allocated so far, with its *ctl.Trade
    req         \* the live-trading tool handlers: position and locals

vars == <<tasks, heap, now, worker, est, ppc, pref, resp, psnap, pseen, call,
          trades, instances, req>>

TradeVars == <<trades, instances, req>>

(***************************** bounds **************************************)
NumIds == 2         \* size of the id space the truncated uuid is drawn from
MaxTasks == 1       \* CreateTask calls in one run
MaxTime == 1        \* last value of the clock

IDs == 1..NumIds
Times == 0..MaxTime

(***************************** Task ****************************************)
TaskStatusPending == "pending"
TaskStatusRunning == "running"
TaskStatusCompleted == "completed"
TaskStatusFailed == "failed"

NilTime == -1       \* a nil *time.Time
NilRef == 0         \* a nil *Task

\* Progress texts.  A text is a tuple so that the fixed placeholders and the
\* estimator's formatted text are values of one kind.
Fixed(text) == <<text>>

TaskTypes == {"backtest"}
ParamSet == {"p"}
ResultSet == {"res"}
ErrorSet == {"err"}
ProgressSet == {Fixed("step")}
PercentSet == {50}

\* CreateTask, lines 62-70: the new record.
NewTask(id, taskType, params) ==
    [ID |-> id, Type |-> taskType, Status |-> TaskStatusPending,
     Progress |-> Fixed("waiting to start"), Percent |-> 0,
     Result |-> "", Error |-> "", Params |-> params,
     CreatedAt |-> now, StartedAt |-> NilTime, EndedAt |-> NilTime]

\* CreateTask as it would be if the record were not put in the map.
CreateTaskUnregistered(id, taskType, params) ==
    /\ heap' = Append(heap, NewTask(id, taskType, params))
    /\ tasks' = tasks

\* CreateTask: tm.tasks[id] = task, whatever the map held for id before.
CreateTask(id, taskType, params) ==
    /\ heap' = Append(heap, NewTask(id, taskType, params))
    /\ tasks' = [i \in DOMAIN tasks \cup {id} |->
                    IF i = id THEN Len(heap) + 1 ELSE tasks[i]]

\* StartTask as it would be with started_at written once only.
StartTaskOnce(id) ==
    IF id \in DOMAIN tasks
    THEN [heap EXCEPT ![tasks[id]] =
            [@ EXCEPT !.Status = TaskStatusRunning,
                      !.StartedAt = IF @ = NilTime THEN now ELSE @,
                      !.Progress = Fixed("running")]]
    ELSE heap

\* StartTask: the heap after the call.
StartTask(id) ==
    IF id \in DOMAIN tasks
    THEN [heap EXCEPT ![tasks[id]] =
            [@ EXCEPT !.Status = TaskStatusRunning,
                      !.StartedAt = now,
                      !.Progress = Fixed("running")]]
    ELSE heap

\* UpdateProgress as it would be if a progress report marked the task running.
UpdateProgressMarksRunning(id, progress, percent) ==
    IF id \in DOMAIN tasks
    THEN [heap EXCEPT ![tasks[id]] =
            [@ EXCEPT !.Status = TaskStatusRunning,
                      !.Progress = progress, !.Percent = percent]]
    ELSE heap

\* UpdateProgress: the heap after the call.
UpdateProgress(id, progress, percent) ==
    IF id \in DOMAIN tasks
    THEN [heap EXCEPT ![tasks[id]] =
            [@ EXCEPT !.Progress = progress, !.Percent = percent]]
    ELSE heap

\* CompleteTask as it would be with ended_at written once only.
CompleteTaskOnce(id, result) ==
    IF id \in DOMAIN tasks
    THEN [heap EXCEPT ![tasks[id]] =
            [@ EXCEPT !.Status = TaskStatusCompleted,
                      !.Result = result,
                      !.Progress = Fixed("completed"),
                      !.Percent = 100,
                      !.EndedAt = IF @ = NilTime THEN now ELSE @]]
    ELSE heap

\* CompleteTask as it would be if it dropped the params with the result in.
CompleteTaskDropsParams(id, result) ==
    IF id \in DOMAIN tasks
    THEN [heap EXCEPT ![tasks[id]] =
            [@ EXCEPT !.Status = TaskStatusCompleted,
                      !.Result = result,
                      !.Progress = Fixed("completed"),
                      !.Percent = 100,
                      !.Params = "",
                      !.EndedAt = now]]
    ELSE heap

\* CompleteTask: the heap after the call.
CompleteTask(id, result) ==
    IF id \in DOMAIN tasks
    THEN [heap EXCEPT ![tasks[id]] =
            [@ EXCEPT !.Status = TaskStatusCompleted,
                      !.Result = result,
                      !.Progress = Fixed("completed"),
                      !.Percent = 100,
                      !.EndedAt = now]]
    ELSE heap

\* FailTask as it would be if it made a record for an id the map does not
\* hold.
FailTaskUpsert(id, errMsg) ==
    IF id \in DOMAIN tasks
    THEN [heap EXCEPT ![tasks[id]] =
            [@ EXCEPT !.Status = TaskStatusFailed,
                      !.Error = errMsg,
                      !.Progress = Fixed("failed"),
                      !.EndedAt = now]]
    ELSE Append(heap, [NewTask(id, "", "") EXCEPT
                          !.Status = TaskStatusFailed, !.Error = errMsg,
                          !.Progress = Fixed("failed"), !.EndedAt = now])

\* FailTask as it would be without the write of ended_at.
FailTaskNoEndedAt(id, errMsg) ==
    IF id \in DOMAIN tasks
    THEN [heap EXCEPT ![tasks[id]] =
            [@ EXCEPT !.Status = TaskStatusFailed,
                      !.Error = errMsg,
                      !.Progress = Fixed("failed")]]
    ELSE heap

\* FailTask as it would be if it closed the percent as CompleteTask does.
FailTaskSetsPercent(id, errMsg) ==
    IF id \in DOMAIN tasks
    THEN [heap EXCEPT ![tasks[id]] =
            [@ EXCEPT !.Status = TaskStatusFailed,
                      !.Error = errMsg,
                      !.Progress = Fixed("failed"),
                      !.Percent = 100,
                      !.EndedAt = now]]
    ELSE heap

\* FailTask: the heap after the call.
FailTask(id, errMsg) ==
    IF id \in DOMAIN tasks
    THEN [heap EXCEPT ![tasks[id]] =
            [@ EXCEPT !.Status = TaskStatusFailed,
                      !.Error = errMsg,
                      !.Progress = Fixed("failed"),
                      !.EndedAt = now]]
    ELSE heap

\* GetTask: the *Task the map holds for id (the pointer itself, not a copy),
\* or nil with the not-found error.
GetTask(id) == IF id \in DOMAIN tasks THEN tasks[id] ELSE NilRef

\* GetTask's error: nil, or fmt.Errorf("task '%s' not found", id).
NoError == << >>
GetTaskError(id) ==
    IF id \in DOMAIN tasks THEN NoError ELSE <<"task '", id, "' not found">>

(***************************** policy and estimator ************************)
AsyncThresholdDays == 30
SecondsPerDayOfData == 86400        \* a day of a time range, in seconds

\* ShouldRunAsync: end.Sub(start).Hours()/24 > 30.  span = end - start in
\* seconds (the tools parse times to the second).
\* ShouldRunAsync as it would be with the threshold itself counted as over.
ShouldRunAsyncInclusive(span) == span >= AsyncThresholdDays * SecondsPerDayOfData

ShouldRunAsync(span) == span > AsyncThresholdDays * SecondsPerDayOfData

\* Go's conversion of a quotient to an integer: towards zero.
Trunc(n, d) == IF n >= 0 THEN n \div d ELSE -((-n) \div d)

\* The table as it would be without its backtest_managed entry.
estimatedSecondsPerDayShort(taskType) ==
    CASE taskType = "backtest" -> 1
      [] taskType = "download" -> 4
      [] OTHER -> 2

\* estimatedSecondsPerDay[taskType], doubled to stay in the integers;
\* 1.0 second per day for a type the table does not hold.
estimatedSecondsPerDay2(taskType) ==
    CASE taskType = "backtest" -> 1
      [] taskType = "backtest_managed" -> 1
      [] taskType = "download" -> 4
      [] OTHER -> 2

\* estimatedTotal in milliseconds: days * secsPerDay * 1000, at least 5 s.
estimatedTotal(taskType, span) ==
    LET raw == Trunc(span * estimatedSecondsPerDay2(taskType) * 5, 864)
    IN  IF raw < 5000 THEN 5000 ELSE raw

\* tickInterval in milliseconds: 2% of estimatedTotal within [1 s, 10 s].
tickInterval(total) ==
    LET raw == total \div 50
    IN  IF raw < 1000 THEN 1000 ELSE IF raw > 10000 THEN 10000 ELSE raw

\* math.Exp(-q) for a whole q, times 10000.
ExpNegWhole(q) ==
    CASE q = 0 -> 10000 [] q = 1 -> 3679 [] q = 2 -> 1353 [] q = 3 -> 498
      [] q = 4 -> 183 [] q = 5 -> 67 [] q = 6 -> 25 [] q = 7 -> 9
      [] q = 8 -> 3 [] q = 9 -> 1 [] OTHER -> 0

\* math.Exp(-r/1000) for 0 <= r < 1000, times 10000: the series to r^6.
ExpNegFrac(r) ==
    LET t1 == 10 * r
        t2 == (t1 * r) \div 2000
        t3 == (t2 * r) \div 3000
        t4 == (t3 * r) \div 4000
        t5 == (t4 * r) \div 5000
        t6 == (t5 * r) \div 6000
    IN  10000 - t1 + t2 - t3 + t4 - t5 + t6

\* math.Exp(-x/1000), times 10000, for x >= 0.
ExpNeg(x) == (ExpNegWhole(x \div 1000) * ExpNegFrac(x % 1000)) \div 10000

\* The percent of one tick as it would be with the curve scaled to 100.
EstimatorPercentToHundred(elapsed, total) ==
    LET x   == (2000 * elapsed) \div total
        pct == (10000 - ExpNeg(x)) * 100
    IN  IF x >= 37430 THEN 100
        ELSE IF pct < 50000 THEN 5
        ELSE IF pct >= 1000000 THEN 99
        ELSE pct \div 10000

\* The percent of one tick, lines 218-230: elapsed and total in
\* milliseconds; (1 - e^(-2*ratio)) * 95 within [5, 95], then int().
\* In float64, 1 - e^(-2*ratio) is 1 (and pct is 95) only from 2*ratio = 54 ln 2
\* = 37.43 on, where e^(-2*ratio) falls under half an ulp of 1; below that
\* pct < 95 and int(pct) is at most 94.
EstimatorPercent(elapsed, total) ==
    LET x   == (2000 * elapsed) \div total
        pct == (10000 - ExpNeg(x)) * 95
    IN  IF x >= 37430 THEN 95
        ELSE IF pct < 50000 THEN 5
        ELSE IF pct >= 950000 THEN 94
        ELSE pct \div 10000

\* "%.0f" of days: to the nearest whole number, a half to the even one.
RoundDays(span) ==
    LET a == IF span >= 0 THEN span ELSE -span
        q == a \div SecondsPerDayOfData
        m == a % SecondsPerDayOfData
        r == IF 2 * m > SecondsPerDayOfData THEN q + 1
             ELSE IF 2 * m < SecondsPerDayOfData THEN q
             ELSE IF q % 2 = 0 THEN q ELSE q + 1
    IN  IF span >= 0 THEN r ELSE -r

\* The text of one tick, lines 231-232; elapsed truncated to the second.
EstimatorProgress(span, elapsed) ==
    <<"processing...", RoundDays(span), elapsed \div 1000>>

(***************************** the asynchronous tools **********************)
MaxSubmits == 2     \* asynchronous submits in one run

Workers == 1..MaxSubmits

ToolSet == {"run_backtest", "run_backtest_managed", "download_kline",
            "download_kline_auto"}

\* The type each tool gives CreateTask and ProgressEstimator.
TaskTypeOf(tool) ==
    CASE tool = "run_backtest" -> "backtest"
      [] tool = "run_backtest_managed" -> "backtest_managed"
      [] OTHER -> "download"

\* Time ranges, end - start in seconds: one second over the threshold, and
\* 2024-01-01 to 2024-03-15.
AsyncSpans == {AsyncThresholdDays * SecondsPerDayOfData + 1,
               74 * SecondsPerDayOfData}

\* download_kline with auto=true estimates over now.AddDate(0, -3, 0)..now:
\* three calendar months, 89 to 92 days.
AutoSpans == {89 * SecondsPerDayOfData, 92 * SecondsPerDayOfData}

SpansOf(tool) == IF tool = "download_kline_auto" THEN AutoSpans ELSE AsyncSpans

\* The params map given to CreateTask.
ParamsOf(tool, span) ==
    IF tool = "download_kline_auto" THEN <<tool, "auto">> ELSE <<tool, span>>

\* What the wrapped operation returns: (result, nil) or (_, err).
Outcomes == {[ok |-> TRUE, val |-> "report"],
             [ok |-> FALSE, val |-> "exchange timeout"]}
NoOutcome == [ok |-> FALSE, val |-> ""]

\* The text the worker gives FailTask for the operation's error.
ErrorText(tool, msg) ==
    IF TaskTypeOf(tool) = "download" THEN "download failed: " \o msg ELSE msg

\* The text the worker gives CompleteTask: the JSON of the result, or of the
\* download's fixed status map.
ResultText(tool, val) ==
    IF TaskTypeOf(tool) = "download" THEN "{status: completed}"
    ELSE "{" \o val \o "}"

\* The text a synchronous call returns for the operation's error and for its
\* result.
SyncErrorText(tool, msg) ==
    IF TaskTypeOf(tool) = "download" THEN "download failed: " \o msg ELSE msg

SyncResultText(tool, val) ==
    IF TaskTypeOf(tool) = "download" THEN "{status: completed}"
    ELSE "{" \o val \o "}"

\* The response of a submit: none yet, the asyncResult map with the task id,
\* or the text or error of a synchronous run.
NoReply == [class |-> "none", taskId |-> 0, text |-> ""]
AsyncReply(id) == [class |-> "async", taskId |-> id, text |-> ""]

IdleWorker == [pc |-> "idle", id |-> 0, tool |-> "", span |-> 0,
               out |-> NoOutcome, reply |-> NoReply]
NoEstimator == [pc |-> "none", done |-> "none", buf |-> FALSE, next |-> 0,
                started |-> 0, elapsed |-> 0]

(***************************** the poller **********************************)
\* What the history variables record of a heap change: the values the Task
\* behind the handler's pointer takes while the handler holds it.
Track == pseen' = IF pref # NilRef THEN pseen \cup {heap'[pref]} ELSE pseen

NoTask == [ID |-> 0]
NoResp == [class |-> "none", taskId |-> 0, type |-> "", status |-> "",
           progress |-> Fixed(""), percent |-> 0, params |-> << >>,
           startedAt |-> NilTime, endedAt |-> NilTime, duration |-> NilTime,
           hasError |-> FALSE, error |-> "", result |-> << >>,
           message |-> ""]

PollerVars == <<ppc, pref, resp, psnap, pseen>>

\* No function is being evaluated on its own.
NoCall == [pc |-> "none"]

(***************************** live trading *******************************)
MaxRequests == 3    \* live-trading tool calls in one run

Requesters == 1..MaxRequests

TradeExchanges == {"binance"}
TradeSymbols == {"BTCUSDT", "ETHUSDT"}
TradeScripts == {"a.so", "b.so"}

\* fmt.Sprintf("%s_%s_%d", exchangeName, symbol, time.Now().Unix())
TradeID(exchangeName, symbol, unix) ==
    exchangeName \o "_" \o symbol \o "_" \o ToString(unix)

\* The tradeId arguments of stop_trade and trade_status.
TradeIdSet ==
    {TradeID(e, s, t) : e \in TradeExchanges, s \in TradeSymbols, t \in Times}

\* &tradeInstance{...}; the trade field is the *ctl.Trade that Start() set
\* running, with the number of Stop() calls made on it.
NewTradeInstance(tradeID, exchangeName, symbol, script) ==
    [ID |-> tradeID, Exchange |-> exchangeName, Symbol |-> symbol,
     Script |-> script, Started |-> now,
     trade |-> [running |-> TRUE, stops |-> 0]]

NoTradeReply == [class |-> "none", status |-> "", tradeId |-> "",
                 script |-> "", started |-> NilTime, total |-> 0,
                 listed |-> {}, text |-> ""]

TradeError(text) == [NoTradeReply EXCEPT !.class = "error", !.text = text]

IdleRequest == [pc |-> "idle", tool |-> "", tradeID |-> "", inst |-> NilRef,
                reply |-> NoTradeReply]

\* var manager = &tradeManager{trades: make(map[string]*tradeInstance)}
NoTrades ==
    /\ trades = [i \in {} |-> NilRef]
    /\ instances = << >>
    /\ req = [q \in Requesters |-> IdleRequest]

Init ==
    /\ NoTrades
    /\ tasks = [i \in {} |-> NilRef]
    /\ heap = << >>
    /\ now = 0
    /\ worker = [w \in Workers |-> IdleWorker]
    /\ est = [w \in Workers |-> NoEstimator]
    /\ ppc = "idle"
    /\ pref = NilRef
    /\ resp = NoResp
    /\ psnap = NoTask
    /\ pseen = {}
    /\ call = NoCall

(************************* registry callers ********************************)
\* A caller of the registry API: any operation, on any id, in any order.
CallCreateTask ==
    /\ Len(heap) < MaxTasks
    /\ \E id \in IDs, ty \in TaskTypes, pa \in ParamSet : CreateTask(id, ty, pa)
    /\ UNCHANGED <<TradeVars, call, now, worker, est, PollerVars>>

CallStartTask ==
    /\ \E id \in IDs : heap' = StartTask(id)
    /\ UNCHANGED <<TradeVars, call, tasks, now, worker, est, PollerVars>>

CallUpdateProgress ==
    /\ \E id \in IDs, pr \in ProgressSet, pc \in PercentSet :
          heap' = UpdateProgress(id, pr, pc)
    /\ UNCHANGED <<TradeVars, call, tasks, now, worker, est, PollerVars>>

CallCompleteTask ==
    /\ \E id \in IDs, r \in ResultSet : heap' = CompleteTask(id, r)
    /\ UNCHANGED <<TradeVars, call, tasks, now, worker, est, PollerVars>>

CallFailTask ==
    /\ \E id \in IDs, e \in ErrorSet : heap' = FailTask(id, e)
    /\ UNCHANGED <<TradeVars, call, tasks, now, worker, est, PollerVars>>

\* Time passes.
AdvanceClock ==
    /\ now < MaxTime
    /\ now' = now + 1
    /\ UNCHANGED <<TradeVars, call, tasks, heap, worker, est, PollerVars>>

NextRegistry ==
    \/ CallCreateTask
    \/ CallStartTask
    \/ CallUpdateProgress
    \/ CallCompleteTask
    \/ CallFailTask
    \/ AdvanceClock

SpecRegistry == Init /\ [][NextRegistry]_vars

(***************************** the workers **********************************)
\* The handler of an asynchronous submit, its tool and range drawn from S:
\* the range is over the threshold (or the download is automatic), CreateTask
\* with an id that is the first eight characters of a fresh uuid, go func().
Submit(w, S) ==
    /\ worker[w].pc = "idle"
    /\ \A v \in Workers : v < w => worker[v].pc # "idle"
    /\ \E in \in S :
         LET tool == in[1]
             span == in[2]
         IN  IF tool = "download_kline_auto" \/ ShouldRunAsync(span)
             THEN \E id \in IDs :
                    /\ CreateTask(id, TaskTypeOf(tool), ParamsOf(tool, span))
                    /\ worker' = [worker EXCEPT ![w] =
                          [pc |-> "StartTask", id |-> id, tool |-> tool,
                           span |-> span, out |-> NoOutcome,
                           reply |-> AsyncReply(id)]]
             ELSE /\ worker' = [worker EXCEPT ![w] =
                        [pc |-> "sync", id |-> 0, tool |-> tool,
                         span |-> span, out |-> NoOutcome,
                         reply |-> NoReply]]
                  /\ UNCHANGED <<tasks, heap>>
    /\ Track
    /\ UNCHANGED <<TradeVars, call, now, est, ppc, pref, resp, psnap>>

\* The synchronous path as it would be if it recorded its run as a task.
SyncRunRecorded(w) ==
    /\ worker[w].pc = "sync"
    /\ \E o \in Outcomes, id \in IDs :
          /\ CreateTask(id, TaskTypeOf(worker[w].tool),
                        ParamsOf(worker[w].tool, worker[w].span))
          /\ worker' = [worker EXCEPT
                ![w].pc = "replied",
                ![w].out = o,
                ![w].reply =
                    IF o.ok
                    THEN [class |-> "text", taskId |-> id,
                          text |-> SyncResultText(worker[w].tool, o.val)]
                    ELSE [class |-> "error", taskId |-> id,
                          text |-> SyncErrorText(worker[w].tool, o.val)]]
    /\ UNCHANGED <<TradeVars, call, now, est, PollerVars>>

\* The synchronous path: the operation runs in the handler, which returns its
\* result or its error.
SyncRun(w) ==
    /\ worker[w].pc = "sync"
    /\ \E o \in Outcomes :
          worker' = [worker EXCEPT
              ![w].pc = "replied",
              ![w].out = o,
              ![w].reply =
                  IF o.ok
                  THEN [class |-> "text", taskId |-> 0,
                        text |-> SyncResultText(worker[w].tool, o.val)]
                  ELSE [class |-> "error", taskId |-> 0,
                        text |-> SyncErrorText(worker[w].tool, o.val)]]
    /\ UNCHANGED <<TradeVars, call, tasks, heap, now, est, PollerVars>>

\* tm.StartTask(taskID)
WorkerStartTask(w) ==
    /\ worker[w].pc = "StartTask"
    /\ heap' = StartTask(worker[w].id)
    /\ worker' = [worker EXCEPT ![w].pc = "ProgressEstimator"]
    /\ Track
    /\ UNCHANGED <<TradeVars, call, tasks, now, est, ppc, pref, resp, psnap>>

\* doneCh := tm.ProgressEstimator(...): make(chan struct{}), go func().
WorkerProgressEstimator(w) ==
    /\ worker[w].pc = "ProgressEstimator"
    /\ est' = [est EXCEPT ![w] = [NoEstimator EXCEPT !.pc = "NewTicker",
                                                     !.done = "open"]]
    /\ worker' = [worker EXCEPT ![w].pc = "run"]
    /\ UNCHANGED <<TradeVars, call, tasks, heap, now, PollerVars>>

\* The wrapped operation returns.
WorkerRun(w) ==
    /\ worker[w].pc = "run"
    /\ \E o \in Outcomes :
          worker' = [worker EXCEPT ![w].pc = "close", ![w].out = o]
    /\ UNCHANGED <<TradeVars, call, tasks, heap, now, est, PollerVars>>

\* close(doneCh)
WorkerClose(w) ==
    /\ worker[w].pc = "close"
    /\ est' = [est EXCEPT ![w].done = "closed"]
    /\ worker' = [worker EXCEPT ![w].pc = "finish"]
    /\ UNCHANGED <<TradeVars, call, tasks, heap, now, PollerVars>>

\* The end of the worker as it would be if the error path returned without
\* FailTask.
WorkerFinishDropsError(w) ==
    /\ worker[w].pc = "finish"
    /\ heap' = IF worker[w].out.ok
               THEN CompleteTask(worker[w].id,
                                 ResultText(worker[w].tool, worker[w].out.val))
               ELSE heap
    /\ worker' = [worker EXCEPT ![w].pc = "done"]
    /\ Track
    /\ UNCHANGED <<TradeVars, call, tasks, now, est, ppc, pref, resp, psnap>>

\* if err != nil { tm.FailTask(...); return }; tm.CompleteTask(...)
WorkerFinish(w) ==
    /\ worker[w].pc = "finish"
    /\ heap' = IF worker[w].out.ok
               THEN CompleteTask(worker[w].id,
                                 ResultText(worker[w].tool, worker[w].out.val))
               ELSE FailTask(worker[w].id,
                             ErrorText(worker[w].tool, worker[w].out.val))
    /\ worker' = [worker EXCEPT ![w].pc = "done"]
    /\ Track
    /\ UNCHANGED <<TradeVars, call, tasks, now, est, ppc, pref, resp, psnap>>

(***************************** the estimator ********************************)
Total(w) == estimatedTotal(TaskTypeOf(worker[w].tool), worker[w].span)

\* ticker := time.NewTicker(tickInterval); started := time.Now()
EstimatorNewTicker(w) ==
    /\ est[w].pc = "NewTicker"
    /\ est' = [est EXCEPT ![w].pc = "select",
                          ![w].started = now,
                          ![w].next = now * 1000 + tickInterval(Total(w))]
    /\ UNCHANGED <<TradeVars, call, tasks, heap, now, worker, PollerVars>>

\* The runtime's timer sends on ticker.C, a channel of capacity one, once the
\* interval has passed; a tick that finds the channel full is dropped.
TickerFire(w) ==
    /\ est[w].pc \in {"select", "tick"}
    /\ now * 1000 >= est[w].next
    /\ est' = [est EXCEPT ![w].buf = TRUE,
                          ![w].next = @ + tickInterval(Total(w))]
    /\ UNCHANGED <<TradeVars, call, tasks, heap, now, worker, PollerVars>>

\* The estimator as it would be if it could return with the channel open.
EstimatorDoneUnasked(w) ==
    /\ est[w].pc = "select"
    /\ est' = [est EXCEPT ![w].pc = "exited", ![w].buf = FALSE]
    /\ UNCHANGED <<TradeVars, call, tasks, heap, now, worker, PollerVars>>

\* select, case <-doneCh: return (and the deferred ticker.Stop()).
EstimatorDone(w) ==
    /\ est[w].pc = "select"
    /\ est[w].done = "closed"
    /\ est' = [est EXCEPT ![w].pc = "exited", ![w].buf = FALSE]
    /\ UNCHANGED <<TradeVars, call, tasks, heap, now, worker, PollerVars>>

\* select, case <-ticker.C: elapsed := time.Since(started).  When both cases
\* are ready the runtime picks either.
EstimatorTick(w) ==
    /\ est[w].pc = "select"
    /\ est[w].buf
    /\ est' = [est EXCEPT ![w].pc = "tick", ![w].buf = FALSE,
                          ![w].elapsed = (now - est[w].started) * 1000]
    /\ UNCHANGED <<TradeVars, call, tasks, heap, now, worker, PollerVars>>

\* tm.UpdateProgress(taskID, progress, percent), back to the select.
EstimatorUpdate(w) ==
    /\ est[w].pc = "tick"
    /\ heap' = UpdateProgress(worker[w].id,
                              EstimatorProgress(worker[w].span, est[w].elapsed),
                              EstimatorPercent(est[w].elapsed, Total(w)))
    /\ est' = [est EXCEPT ![w].pc = "select", ![w].elapsed = 0]
    /\ Track
    /\ UNCHANGED <<TradeVars, call, tasks, now, worker, ppc, pref, resp, psnap>>

(***************************** get_task_status ******************************)
\* The response get_task_status would build from one value of a Task.
StatusResponse(t) ==
    IF t.EndedAt # NilTime /\ t.StartedAt = NilTime
    THEN [NoResp EXCEPT !.class = "panic"]
    ELSE [class |-> "text", taskId |-> t.ID, type |-> t.Type,
          status |-> t.Status, progress |-> t.Progress,
          percent |-> t.Percent, params |-> t.Params,
          startedAt |-> t.StartedAt, endedAt |-> t.EndedAt,
          duration |-> IF t.EndedAt # NilTime
                       THEN t.EndedAt - t.StartedAt ELSE NilTime,
          hasError |-> t.Status = TaskStatusFailed,
          error |-> IF t.Status = TaskStatusFailed THEN t.Error ELSE "",
          result |-> << >>, message |-> ""]

\* task, err := tm.GetTask(taskID): under the read lock; what comes back is
\* the pointer the map holds.  An unknown id is answered at once.
PollGetTask ==
    /\ ppc = "idle"
    /\ \E id \in IDs :
         IF GetTask(id) = NilRef
         THEN /\ resp' = [NoResp EXCEPT !.class = "error", !.taskId = id]
              /\ ppc' = "done"
              /\ UNCHANGED <<TradeVars, call, pref, psnap, pseen>>
         ELSE /\ pref' = GetTask(id)
              /\ psnap' = heap[GetTask(id)]
              /\ pseen' = {heap[GetTask(id)]}
              /\ resp' = [NoResp EXCEPT !.taskId = heap[GetTask(id)].ID,
                                        !.type = heap[GetTask(id)].Type]
              /\ ppc' = "Status"
    /\ UNCHANGED <<TradeVars, call, tasks, heap, now, worker, est>>

\* The fields are read through the pointer after the read lock is released,
\* one at a time, in the order of the handler's text.
PollReadStatus ==
    /\ ppc = "Status"
    /\ resp' = [resp EXCEPT !.status = heap[pref].Status]
    /\ ppc' = "Progress"
    /\ UNCHANGED <<TradeVars, call, tasks, heap, now, worker, est, pref, psnap, pseen>>

PollReadProgress ==
    /\ ppc = "Progress"
    /\ resp' = [resp EXCEPT !.progress = heap[pref].Progress]
    /\ ppc' = "Percent"
    /\ UNCHANGED <<TradeVars, call, tasks, heap, now, worker, est, pref, psnap, pseen>>

PollReadPercent ==
    /\ ppc = "Percent"
    /\ resp' = [resp EXCEPT !.percent = heap[pref].Percent,
                            !.params = heap[pref].Params]
    /\ ppc' = "StartedAt"
    /\ UNCHANGED <<TradeVars, call, tasks, heap, now, worker, est, pref, psnap, pseen>>

PollReadStartedAt ==
    /\ ppc = "StartedAt"
    /\ resp' = [resp EXCEPT !.startedAt = heap[pref].StartedAt]
    /\ ppc' = "EndedAt"
    /\ UNCHANGED <<TradeVars, call, tasks, heap, now, worker, est, pref, psnap, pseen>>

\* if task.EndedAt != nil: endedAt, and duration = EndedAt.Sub(*StartedAt),
\* a nil pointer dereference when StartedAt is nil.
PollReadEndedAt ==
    /\ ppc = "EndedAt"
    /\ IF heap[pref].EndedAt = NilTime
       THEN resp' = resp /\ ppc' = "Error"
       ELSE IF heap[pref].StartedAt = NilTime
       THEN resp' = [NoResp EXCEPT !.class = "panic"] /\ ppc' = "done"
       ELSE /\ resp' = [resp EXCEPT
                  !.endedAt = heap[pref].EndedAt,
                  !.duration = heap[pref].EndedAt - heap[pref].StartedAt]
            /\ ppc' = "Error"
    /\ UNCHANGED <<TradeVars, call, tasks, heap, now, worker, est, pref, psnap, pseen>>

\* if task.Status == TaskStatusFailed: error; the response is complete.
PollReadError ==
    /\ ppc = "Error"
    /\ resp' = IF heap[pref].Status = TaskStatusFailed
               THEN [resp EXCEPT !.class = "text", !.hasError = TRUE,
                                 !.error = heap[pref].Error]
               ELSE [resp EXCEPT !.class = "text"]
    /\ ppc' = "done"
    /\ UNCHANGED <<TradeVars, call, tasks, heap, now, worker, est, pref, psnap, pseen>>

\* The handler returns; the next poll may begin.
PollReturn ==
    /\ ppc = "done"
    /\ ppc' = "idle"
    /\ pref' = NilRef
    /\ resp' = NoResp
    /\ psnap' = NoTask
    /\ pseen' = {}
    /\ UNCHANGED <<TradeVars, call, tasks, heap, now, worker, est>>

Poll ==
    \/ PollGetTask
    \/ PollReadStatus
    \/ PollReadProgress
    \/ PollReadPercent
    \/ PollReadStartedAt
    \/ PollReadEndedAt
    \/ PollReadError
    \/ PollReturn

(***************************** list_tasks ***********************************)
\* Whether ListTasks keeps t: the two "continue" tests of its loop.
Listed(t, taskType, status) ==
    /\ ~(taskType # "" /\ t.Type # taskType)
    /\ ~(status # "" /\ t.Status # status)

\* ListTasks as it would be with a task kept when either filter accepts it.
RECURSIVE ListTasksEitherFilter(_, _, _)
ListTasksEitherFilter(ids, taskType, status) ==
    IF ids = {} THEN << >>
    ELSE LET id == CHOOSE i \in ids : \A j \in ids : i <= j
             rest == ListTasksEitherFilter(ids \ {id}, taskType, status)
             t == heap[tasks[id]]
         IN  IF (taskType = "" \/ t.Type = taskType)
                  \/ (status = "" \/ t.Status = status)
             THEN <<tasks[id]>> \o rest
             ELSE rest

\* ListTasks: the loop over tm.tasks, here over the ids still to visit; the
\* *Task of every task kept is appended to the result.
RECURSIVE ListTasks(_, _, _)
ListTasks(ids, taskType, status) ==
    IF ids = {} THEN << >>
    ELSE LET id == CHOOSE i \in ids : \A j \in ids : i <= j
             rest == ListTasks(ids \ {id}, taskType, status)
         IN  IF Listed(heap[tasks[id]], taskType, status)
             THEN <<tasks[id]>> \o rest
             ELSE rest

\* The summary list_tasks makes of one task.
TaskSummary(t) ==
    [id |-> t.ID, type |-> t.Type, status |-> t.Status,
     progress |-> t.Progress, percent |-> t.Percent,
     createdAt |-> t.CreatedAt,
     duration |-> IF t.StartedAt # NilTime /\ t.EndedAt # NilTime
                  THEN t.EndedAt - t.StartedAt ELSE NilTime]

\* The response of list_tasks: one summary for each task ListTasks returned
\* and their number.
ListResponse(taskType, status) ==
    LET found == ListTasks(DOMAIN tasks, taskType, status)
        summaries == [i \in 1..Len(found) |-> TaskSummary(heap[found[i]])]
    IN  [total |-> Len(summaries), tasks |-> summaries]

\* The filters a caller may give.
TypeFilters == {"", "backtest", "backtest_managed", "download"}
StatusFilters == {"", TaskStatusPending, TaskStatusRunning,
                  TaskStatusCompleted, TaskStatusFailed}

(***************************** get_task_result ******************************)
\* The result texts that json.Unmarshal accepts: those a worker made with
\* json.MarshalIndent.
ValidJSON == {ResultText(t, o.val) : t \in ToolSet, o \in Outcomes}

\* Lines 76-81: the stored result embedded as the parsed JSON value, or as
\* the string itself when it does not parse.
EmbedResult(text) ==
    IF text \in ValidJSON THEN <<"json", text>> ELSE <<"string", text>>

\* The three responses of the switch, each from the fields it reads.
ResultCompleted(t) ==
    [NoResp EXCEPT !.class = "text", !.taskId = t.ID, !.type = t.Type,
                   !.status = t.Status,
                   !.duration = IF t.StartedAt # NilTime /\ t.EndedAt # NilTime
                                THEN t.EndedAt - t.StartedAt ELSE NilTime,
                   !.result = EmbedResult(t.Result)]

ResultFailed(t) ==
    [NoResp EXCEPT !.class = "error", !.taskId = t.ID, !.type = t.Type,
                   !.status = t.Status, !.hasError = TRUE, !.error = t.Error]

ResultStillRunning(t) ==
    [NoResp EXCEPT !.class = "text", !.taskId = t.ID, !.type = t.Type,
                   !.status = t.Status, !.progress = t.Progress,
                   !.percent = t.Percent,
                   !.message = "Task is still " \o t.Status]

\* The response get_task_result would build from one value of a Task.
ResultResponse(t) ==
    CASE t.Status = TaskStatusCompleted -> ResultCompleted(t)
      [] t.Status = TaskStatusFailed -> ResultFailed(t)
      [] OTHER -> ResultStillRunning(t)

\* task, err := tm.GetTask(taskID); an unknown id is answered with the error.
ResultGetTask ==
    /\ ppc = "idle"
    /\ \E id \in IDs :
         IF GetTask(id) = NilRef
         THEN /\ resp' = [NoResp EXCEPT !.class = "error", !.taskId = id]
              /\ ppc' = "done"
              /\ UNCHANGED <<pref, psnap, pseen>>
         ELSE /\ pref' = GetTask(id)
              /\ psnap' = heap[GetTask(id)]
              /\ pseen' = {heap[GetTask(id)]}
              /\ resp' = NoResp
              /\ ppc' = "switch"
    /\ UNCHANGED <<TradeVars, call, tasks, heap, now, worker, est>>

\* switch task.Status: read through the pointer, after the read lock.
ResultSwitch ==
    /\ ppc = "switch"
    /\ ppc' = CASE heap[pref].Status = TaskStatusCompleted -> "caseCompleted"
                [] heap[pref].Status = TaskStatusFailed -> "caseFailed"
                [] OTHER -> "default"
    /\ UNCHANGED <<TradeVars, call, tasks, heap, now, worker, est, pref, resp, psnap, pseen>>

\* case TaskStatusCompleted, lines 66-84.
ResultCaseCompleted ==
    /\ ppc = "caseCompleted"
    /\ resp' = ResultCompleted(heap[pref])
    /\ ppc' = "done"
    /\ UNCHANGED <<TradeVars, call, tasks, heap, now, worker, est, pref, psnap, pseen>>

\* case TaskStatusFailed, lines 87-94.
ResultCaseFailed ==
    /\ ppc = "caseFailed"
    /\ resp' = ResultFailed(heap[pref])
    /\ ppc' = "done"
    /\ UNCHANGED <<TradeVars, call, tasks, heap, now, worker, est, pref, psnap, pseen>>

\* default, lines 98-107: the fields are read again, status among them.
ResultDefault ==
    /\ ppc = "default"
    /\ resp' = ResultStillRunning(heap[pref])
    /\ ppc' = "done"
    /\ UNCHANGED <<TradeVars, call, tasks, heap, now, worker, est, pref, psnap, pseen>>

ResultPoll ==
    \/ ResultGetTask
    \/ ResultSwitch
    \/ ResultCaseCompleted
    \/ ResultCaseFailed
    \/ ResultDefault
    \/ PollReturn

(***************************** the program **********************************)
\* Every tool with every range.
Submissions == {<<"run_backtest", s>> : s \in AsyncSpans}
          \cup {<<"run_backtest_managed", s>> : s \in AsyncSpans}
          \cup {<<"download_kline", s>> : s \in AsyncSpans}
          \cup {<<"download_kline_auto", s>> : s \in AutoSpans}

\* One asynchronous task with its worker and its estimator, and a client
\* polling get_task_status.
Next ==
    \/ Submit(1, Submissions)
    \/ WorkerStartTask(1)
    \/ WorkerProgressEstimator(1)
    \/ WorkerRun(1)
    \/ WorkerClose(1)
    \/ WorkerFinish(1)
    \/ EstimatorNewTicker(1)
    \/ TickerFire(1)
    \/ EstimatorDone(1)
    \/ EstimatorTick(1)
    \/ EstimatorUpdate(1)
    \/ Poll
    \/ AdvanceClock

Spec == Init /\ [][Next]_vars

\* One asynchronous task with its worker and its estimator, and a client
\* polling get_task_result.
NextResult ==
    \/ Submit(1, Submissions)
    \/ WorkerStartTask(1)
    \/ WorkerProgressEstimator(1)
    \/ WorkerRun(1)
    \/ WorkerClose(1)
    \/ WorkerFinish(1)
    \/ EstimatorNewTicker(1)
    \/ TickerFire(1)
    \/ EstimatorDone(1)
    \/ EstimatorTick(1)
    \/ EstimatorUpdate(1)
    \/ ResultPoll
    \/ AdvanceClock

SpecResult == Init /\ [][NextResult]_vars

\* Every tool with one range.
ConcurrentSubmissions ==
    {<<"run_backtest", 74 * SecondsPerDayOfData>>,
     <<"run_backtest_managed", AsyncThresholdDays * SecondsPerDayOfData + 1>>,
     <<"download_kline", 74 * SecondsPerDayOfData>>,
     <<"download_kline_auto", 92 * SecondsPerDayOfData>>}

\* Several asynchronous tasks in flight at once, each with its worker and its
\* estimator.
NextConcurrent ==
    \/ \E w \in Workers : Submit(w, ConcurrentSubmissions)
    \/ \E w \in Workers : WorkerStartTask(w)
    \/ \E w \in Workers : WorkerProgressEstimator(w)
    \/ \E w \in Workers : WorkerRun(w)
    \/ \E w \in Workers : WorkerClose(w)
    \/ \E w \in Workers : WorkerFinish(w)
    \/ \E w \in Workers : EstimatorNewTicker(w)
    \/ \E w \in Workers : TickerFire(w)
    \/ \E w \in Workers : EstimatorDone(w)
    \/ \E w \in Workers : EstimatorTick(w)
    \/ \E w \in Workers : EstimatorUpdate(w)
    \/ AdvanceClock

SpecConcurrent == Init /\ [][NextConcurrent]_vars

\* The scheduler runs every worker goroutine that can take a step; the
\* wrapped operation itself need not return.
WorkerFairness ==
    \A w \in Workers :
        /\ WF_vars(WorkerStartTask(w))
        /\ WF_vars(WorkerProgressEstimator(w))
        /\ WF_vars(WorkerClose(w))
        /\ WF_vars(WorkerFinish(w))

\* A backtest and a download.
InFlightSubmissions ==
    {<<"run_backtest", 74 * SecondsPerDayOfData>>,
     <<"download_kline", AsyncThresholdDays * SecondsPerDayOfData + 1>>}

\* Several asynchronous tasks in flight at once and no poll.
NextInFlight ==
    \/ \E w \in Workers : Submit(w, InFlightSubmissions)
    \/ \E w \in Workers : WorkerStartTask(w)
    \/ \E w \in Workers : WorkerProgressEstimator(w)
    \/ \E w \in Workers : WorkerRun(w)
    \/ \E w \in Workers : WorkerClose(w)
    \/ \E w \in Workers : WorkerFinish(w)
    \/ \E w \in Workers : EstimatorNewTicker(w)
    \/ \E w \in Workers : TickerFire(w)
    \/ \E w \in Workers : EstimatorDone(w)
    \/ \E w \in Workers : EstimatorTick(w)
    \/ \E w \in Workers : EstimatorUpdate(w)
    \/ AdvanceClock

SpecInFlightFair == Init /\ [][NextInFlight]_vars /\ WorkerFairness

\* The scheduler runs every estimator goroutine, and a select that finds the
\* closed done channel ready again and again takes that case in the end.
EstimatorFairness ==
    \A w \in Workers :
        /\ WF_vars(EstimatorNewTicker(w))
        /\ WF_vars(EstimatorUpdate(w))
        /\ SF_vars(EstimatorDone(w))

SpecInFlightSelectFair == Init /\ [][NextInFlight]_vars /\ EstimatorFairness

(***************************** submits of any range ************************)
\* Ranges a synchronous run gets: reversed, zero-length, nine days, one second
\* under the threshold and the threshold itself.
SyncSpans == {-SecondsPerDayOfData, 0, 9 * SecondsPerDayOfData,
              AsyncThresholdDays * SecondsPerDayOfData - 1,
              AsyncThresholdDays * SecondsPerDayOfData}

ManualTools == ToolSet \ {"download_kline_auto"}

AnySubmissions ==
    ConcurrentSubmissions \cup {<<t, s>> : t \in ManualTools, s \in SyncSpans}

\* Submits of any range, several at once, next to the tasks in flight.
NextSubmit ==
    \/ \E w \in Workers : Submit(w, AnySubmissions)
    \/ \E w \in Workers : SyncRun(w)
    \/ \E w \in Workers : WorkerStartTask(w)
    \/ \E w \in Workers : WorkerProgressEstimator(w)
    \/ \E w \in Workers : WorkerRun(w)
    \/ \E w \in Workers : WorkerClose(w)
    \/ \E w \in Workers : WorkerFinish(w)
    \/ \E w \in Workers : EstimatorNewTicker(w)
    \/ \E w \in Workers : TickerFire(w)
    \/ \E w \in Workers : EstimatorDone(w)
    \/ \E w \in Workers : EstimatorTick(w)
    \/ \E w \in Workers : EstimatorUpdate(w)
    \/ AdvanceClock

SpecSubmit == Init /\ [][NextSubmit]_vars

(************************ the estimator on its own *************************)
\* ProgressEstimator(taskID, taskType, dataStart, dataEnd) for any task type
\* and any data range, on a task that CreateTask made and StartTask started,
\* with the caller's close(doneCh) and CompleteTask or FailTask.
KindSet == {"backtest", "backtest_managed", "download", "optimize"}

\* dataEnd - dataStart in seconds: reversed, zero-length, short, at and just
\* over the threshold, long.
RangeSet == {-SecondsPerDayOfData, 0, 1, SecondsPerDayOfData,
             AsyncThresholdDays * SecondsPerDayOfData,
             AsyncThresholdDays * SecondsPerDayOfData + 1,
             74 * SecondsPerDayOfData, 365 * SecondsPerDayOfData}

\* time.Since(started) at a tick, in milliseconds.
ElapsedSet == {1000, 1500, 2500, 5000, 10000, 20000, 100000, 1000000}

InitEstimator ==
    /\ NoTrades
    /\ now = 0
    /\ tasks = [i \in {1} |-> 1]
    /\ \E k \in KindSet, s \in RangeSet :
          /\ heap = <<[NewTask(1, k, "p") EXCEPT
                          !.Status = TaskStatusRunning, !.StartedAt = now,
                          !.Progress = Fixed("running")]>>
          /\ call = [pc |-> "ProgressEstimator", taskID |-> 1,
                     taskType |-> k, span |-> s, estimatedTotal |-> 0,
                     tickInterval |-> 0, elapsed |-> 0, percent |-> 0,
                     done |-> "open", out |-> NoOutcome]
    /\ worker = [w \in Workers |-> IdleWorker]
    /\ est = [w \in Workers |-> NoEstimator]
    /\ ppc = "idle"
    /\ pref = NilRef
    /\ resp = NoResp
    /\ psnap = NoTask
    /\ pseen = {}

\* Lines 187-206: estimatedTotal and tickInterval, then go func().
ProgressEstimatorSetup ==
    /\ call.pc = "ProgressEstimator"
    /\ call' = [call EXCEPT
          !.pc = "select",
          !.estimatedTotal = estimatedTotal(call.taskType, call.span),
          !.tickInterval =
              tickInterval(estimatedTotal(call.taskType, call.span))]
    /\ UNCHANGED <<TradeVars, tasks, heap, now, worker, est, PollerVars>>

\* case <-ticker.C, lines 217-234: a tick comes no earlier than one interval
\* after the start and elapsed only grows; the percent and the text are
\* written with UpdateProgress.  A tick may still be taken after the done
\* channel was closed.
ProgressEstimatorTick ==
    /\ call.pc = "select"
    /\ \E e \in ElapsedSet :
          /\ e > call.elapsed
          /\ e >= call.tickInterval
          /\ call' = [call EXCEPT
                !.elapsed = e,
                !.percent = EstimatorPercent(e, call.estimatedTotal)]
          /\ heap' = UpdateProgress(call.taskID,
                                    EstimatorProgress(call.span, e),
                                    EstimatorPercent(e, call.estimatedTotal))
    /\ UNCHANGED <<TradeVars, tasks, now, worker, est, PollerVars>>

\* The caller: the operation returns, close(doneCh), then CompleteTask or
\* FailTask.
ProgressEstimatorCallerFinish ==
    /\ call.pc = "select"
    /\ call.done = "open"
    /\ \E o \in Outcomes :
          /\ call' = [call EXCEPT !.done = "closed", !.out = o]
          /\ heap' = IF o.ok THEN CompleteTask(call.taskID, o.val)
                              ELSE FailTask(call.taskID, o.val)
    /\ UNCHANGED <<TradeVars, tasks, now, worker, est, PollerVars>>

\* case <-doneCh: return
ProgressEstimatorReturn ==
    /\ call.pc = "select"
    /\ call.done = "closed"
    /\ call' = [call EXCEPT !.pc = "exited"]
    /\ UNCHANGED <<TradeVars, tasks, heap, now, worker, est, PollerVars>>

NextEstimator ==
    \/ ProgressEstimatorSetup
    \/ ProgressEstimatorTick
    \/ ProgressEstimatorCallerFinish
    \/ ProgressEstimatorReturn

SpecEstimator == InitEstimator /\ [][NextEstimator]_vars

(************************ the live-trading tools ***************************)
OtherVars == <<tasks, heap, worker, est, PollerVars, call>>

\* start_trade, lines 51-179: the checks, the build and trade.Start(); any
\* failure returns an error. Then the id from exchange, symbol and the
\* clock's second, and the instance.
StartTradeStart(q) ==
    /\ req[q].pc = "idle"
    /\ \A v \in Requesters : v < q => req[v].pc # "idle"
    /\ \E e \in TradeExchanges, s \in TradeSymbols, f \in TradeScripts,
          ok \in BOOLEAN :
          IF ok
          THEN /\ instances' = Append(instances,
                      NewTradeInstance(TradeID(e, s, now), e, s, f))
               /\ req' = [req EXCEPT ![q] =
                      [IdleRequest EXCEPT !.pc = "register",
                                          !.tool = "start_trade",
                                          !.tradeID = TradeID(e, s, now),
                                          !.inst = Len(instances) + 1]]
          ELSE /\ instances' = instances
               /\ req' = [req EXCEPT ![q] =
                      [IdleRequest EXCEPT
                          !.pc = "done", !.tool = "start_trade",
                          !.reply = TradeError("failed to start trade")]]
    /\ UNCHANGED <<trades, now, OtherVars>>

\* start_trade, lines 181-193: manager.trades[tradeID] = instance under the
\* lock, whatever the map held for tradeID, and the "started" response.
StartTradeRegister(q) ==
    /\ req[q].pc = "register"
    /\ trades' = [i \in DOMAIN trades \cup {req[q].tradeID} |->
                    IF i = req[q].tradeID THEN req[q].inst ELSE trades[i]]
    /\ req' = [req EXCEPT
          ![q].pc = "done",
          ![q].reply = [NoTradeReply EXCEPT
              !.class = "text", !.status = "started",
              !.tradeId = req[q].tradeID,
              !.script = instances[req[q].inst].Script]]
    /\ UNCHANGED <<instances, now, OtherVars>>

\* stop_trade as it would be if the lookup left the entry in the map.
StopTradeLookupKeepsEntry(q) ==
    /\ req[q].pc = "idle"
    /\ \A v \in Requesters : v < q => req[v].pc # "idle"
    /\ \E tradeID \in TradeIdSet :
          IF tradeID \notin DOMAIN trades
          THEN req' = [req EXCEPT ![q] =
                  [IdleRequest EXCEPT
                      !.pc = "done", !.tool = "stop_trade",
                      !.tradeID = tradeID,
                      !.reply = TradeError("trade instance not found")]]
          ELSE req' = [req EXCEPT ![q] =
                  [IdleRequest EXCEPT
                      !.pc = "Stop", !.tool = "stop_trade",
                      !.tradeID = tradeID, !.inst = trades[tradeID]]]
    /\ trades' = trades
    /\ UNCHANGED <<instances, now, OtherVars>>

\* stop_trade, lines 204-213: under the lock, the lookup, and either the
\* "not found" error or the delete.
StopTradeLookup(q) ==
    /\ req[q].pc = "idle"
    /\ \A v \in Requesters : v < q => req[v].pc # "idle"
    /\ \E tradeID \in TradeIdSet :
          IF tradeID \notin DOMAIN trades
          THEN /\ trades' = trades
               /\ req' = [req EXCEPT ![q] =
                     [IdleRequest EXCEPT
                         !.pc = "done", !.tool = "stop_trade",
                         !.tradeID = tradeID,
                         !.reply = TradeError("trade instance not found")]]
          ELSE /\ trades' = [i \in DOMAIN trades \ {tradeID} |-> trades[i]]
               /\ req' = [req EXCEPT ![q] =
                     [IdleRequest EXCEPT
                         !.pc = "Stop", !.tool = "stop_trade",
                         !.tradeID = tradeID, !.inst = trades[tradeID]]]
    /\ UNCHANGED <<instances, now, OtherVars>>

\* stop_trade, lines 215-227: instance.trade.Stop(), its error returned;
\* else Wait() and the "stopped" response.
StopTradeStop(q) ==
    /\ req[q].pc = "Stop"
    /\ \E ok \in BOOLEAN :
          /\ instances' = [instances EXCEPT
                ![req[q].inst].trade =
                    [running |-> IF ok THEN FALSE ELSE @.running,
                     stops |-> @.stops + 1]]
          /\ req' = [req EXCEPT
                ![q].pc = "done",
                ![q].reply =
                    IF ok
                    THEN [NoTradeReply EXCEPT
                            !.class = "text", !.status = "stopped",
                            !.tradeId = req[q].tradeID]
                    ELSE TradeError("failed to stop trade")]
    /\ UNCHANGED <<trades, now, OtherVars>>

\* trade_status, lines 243-258, for a tradeId: the fields of the instance
\* the map holds for it, or the "not found" error.
TradeStatusOf(tradeID) ==
    IF tradeID \notin DOMAIN trades
    THEN TradeError("trade instance not found")
    ELSE [NoTradeReply EXCEPT
            !.class = "text", !.status = "running",
            !.tradeId = instances[trades[tradeID]].ID,
            !.script = instances[trades[tradeID]].Script,
            !.started = instances[trades[tradeID]].Started]

\* trade_status, lines 260-277, with no tradeId: every instance of the map.
TradeStatusAll ==
    [NoTradeReply EXCEPT
        !.class = "text", !.status = "list",
        !.total = Cardinality(DOMAIN trades),
        !.listed = {instances[trades[i]].ID : i \in DOMAIN trades}]

\* trade_status, under the read lock.
TradeStatus(q) ==
    /\ req[q].pc = "idle"
    /\ \A v \in Requesters : v < q => req[v].pc # "idle"
    /\ \E tradeID \in TradeIdSet \cup {""} :
          req' = [req EXCEPT ![q] =
              [IdleRequest EXCEPT
                  !.pc = "done", !.tool = "trade_status",
                  !.tradeID = tradeID,
                  !.reply = IF tradeID # "" THEN TradeStatusOf(tradeID)
                            ELSE TradeStatusAll]]
    /\ UNCHANGED <<trades, instances, now, OtherVars>>

\* Time passes between the tool calls.
TradeClock ==
    /\ now < MaxTime
    /\ now' = now + 1
    /\ UNCHANGED <<TradeVars, OtherVars>>

NextTrade ==
    \/ \E q \in Requesters : StartTradeStart(q)
    \/ \E q \in Requesters : StartTradeRegister(q)
    \/ \E q \in Requesters : StopTradeLookup(q)
    \/ \E q \in Requesters : StopTradeStop(q)
    \/ \E q \in Requesters : TradeStatus(q)
    \/ TradeClock

SpecTrade == Init /\ [][NextTrade]_vars

(***************************** claims ***************************************)
Terminal == {TaskStatusCompleted, TaskStatusFailed}
Records == DOMAIN heap

\* C1: once a worker has called CompleteTask on its task, the registry (and so
\* every later status poll) shows status completed, percent 100 and the
\* progress text "completed", whatever the estimator does.
C1_CompleteIsFinal ==
    \A w \in Workers :
        worker[w].pc = "done" /\ worker[w].out.ok =>
            LET t == heap[tasks[worker[w].id]]
            IN  /\ t.Status = TaskStatusCompleted
                /\ t.Percent = 100
                /\ t.Progress = Fixed("completed")

\* C2: after the worker has closed the done channel, the estimator makes no
\* further UpdateProgress call (the step from "tick" back to the select).
C2_NoUpdateAfterClose ==
    [][\A w \in Workers :
          est[w].done = "closed" =>
              ~(est[w].pc = "tick" /\ est'[w].pc = "select")]_vars

\* C3, as claimed: once a task's status is completed or failed, no registry
\* operation changes it.
C3_TerminalAbsorbing ==
    [][\A i \in Records :
          heap[i].Status \in Terminal => heap'[i].Status = heap[i].Status]_vars

\* C3, amended: a completed or failed task keeps its status under
\* UpdateProgress; its status changes only by a further StartTask (to running,
\* started_at and the "running" text rewritten), CompleteTask (to completed,
\* with percent 100, the "completed" text and ended_at rewritten) or FailTask
\* (to failed, with the "failed" text and ended_at rewritten) on its id.
C3_TerminalLeftOnlyByCall ==
    [][\A i \in Records :
          heap[i].Status \in Terminal /\ heap'[i].Status # heap[i].Status =>
              \/ /\ heap'[i].Status = TaskStatusRunning
                 /\ heap'[i].Progress = Fixed("running")
                 /\ heap'[i].StartedAt = now
              \/ /\ heap'[i].Status = TaskStatusCompleted
                 /\ heap'[i].Progress = Fixed("completed")
                 /\ heap'[i].Percent = 100
                 /\ heap'[i].EndedAt = now
              \/ /\ heap'[i].Status = TaskStatusFailed
                 /\ heap'[i].Progress = Fixed("failed")
                 /\ heap'[i].EndedAt = now]_vars

\* C3, witness: UpdateProgress has acted on a completed task, which is still
\* completed.
C3_Witness ==
    \E i \in Records :
        heap[i].Status = TaskStatusCompleted /\ heap[i].Progress \in ProgressSet

\* C4, as claimed: a pending or running task has empty result and error, a
\* completed task an empty error, a failed task an empty result.
C4_TerminalExclusivity ==
    \A i \in Records :
        /\ heap[i].Status \in {TaskStatusPending, TaskStatusRunning} =>
              heap[i].Result = "" /\ heap[i].Error = ""
        /\ heap[i].Status = TaskStatusCompleted => heap[i].Error = ""
        /\ heap[i].Status = TaskStatusFailed => heap[i].Result = ""

\* C4, amended: a task that is pending, or on which neither CompleteTask nor
\* FailTask has been called (ended_at unset), has empty result and error; the
\* result is written by CompleteTask alone and the error by FailTask alone,
\* and no operation clears either.
C4_EmptyUntilEnded ==
    /\ [](\A i \in Records :
            heap[i].Status = TaskStatusPending \/ heap[i].EndedAt = NilTime =>
                heap[i].Result = "" /\ heap[i].Error = "")
    /\ [][\A i \in Records :
            /\ heap'[i].Result # heap[i].Result =>
                  heap'[i].Status = TaskStatusCompleted /\ heap'[i].Result # ""
            /\ heap'[i].Error # heap[i].Error =>
                  heap'[i].Status = TaskStatusFailed /\ heap'[i].Error # ""]_vars

\* C4, witness: a task started and updated but never ended.
C4_Witness ==
    \E i \in Records :
        /\ heap[i].Status = TaskStatusRunning
        /\ heap[i].EndedAt = NilTime
        /\ heap[i].Progress \in ProgressSet

\* C5: the statuses a task's record holds follow pending, running, then one
\* of completed or failed: every change of status is pending to running or
\* running to completed or failed.
C5_StatusPath ==
    [][\A i \in Records :
          heap'[i].Status # heap[i].Status =>
              \/ /\ heap[i].Status = TaskStatusPending
                 /\ heap'[i].Status = TaskStatusRunning
              \/ /\ heap[i].Status = TaskStatusRunning
                 /\ heap'[i].Status \in Terminal]_vars

\* C6: N CreateTask calls yield N distinct ids and N records in the registry:
\* every record ever created is still the one the map holds for its id.
C6_DistinctIds ==
    /\ Cardinality(DOMAIN tasks) = Len(heap)
    /\ \A i \in Records : tasks[heap[i].ID] = i

\* C7: what GetTask returned keeps the field values the task had when it was
\* returned, whatever the registry does afterwards.
C7_SnapshotStable == pref # NilRef => heap[pref] = psnap

\* C8: a status response is built from the fields of a single registry state:
\* it is the response to one of the values the task had during the poll.
C8_PollReadsOneState ==
    ppc = "done" /\ resp.class = "text" =>
        \E t \in pseen : resp = StatusResponse(t)

\* C9, as claimed: started_at is unset while the task is pending and, once
\* set, keeps its value.
C9_StartedAtWrittenOnce ==
    /\ [](\A i \in Records :
            heap[i].Status = TaskStatusPending => heap[i].StartedAt = NilTime)
    /\ [][\A i \in Records :
            heap[i].StartedAt # NilTime =>
                heap'[i].StartedAt = heap[i].StartedAt]_vars

\* C9, amended: started_at is unset while the task is pending; every StartTask
\* call on the task (the call that writes the "running" text) sets it to the
\* current time, also when it was already set; no other operation changes it.
C9_StartedAtSetByEveryStart ==
    /\ [](\A i \in Records :
            heap[i].Status = TaskStatusPending => heap[i].StartedAt = NilTime)
    /\ [][\A i \in Records :
            /\ heap'[i].StartedAt # heap[i].StartedAt =>
                  /\ heap'[i].Status = TaskStatusRunning
                  /\ heap'[i].Progress = Fixed("running")
                  /\ heap'[i].StartedAt = now
            /\ heap'[i].Progress = Fixed("running")
                  /\ heap[i].Progress # Fixed("running") =>
                  heap'[i].StartedAt = now]_vars

\* C9, witness: a task started again after it ended, at a later time.
C9_Witness ==
    \E i \in Records :
        heap[i].EndedAt # NilTime /\ heap[i].StartedAt > heap[i].EndedAt

\* C10, as claimed: ended_at is unset while the task is pending or running
\* and, once set, keeps its value.
C10_EndedAtWrittenOnce ==
    /\ [](\A i \in Records :
            heap[i].Status \in {TaskStatusPending, TaskStatusRunning} =>
                heap[i].EndedAt = NilTime)
    /\ [][\A i \in Records :
            heap[i].EndedAt # NilTime =>
                heap'[i].EndedAt = heap[i].EndedAt]_vars

\* C10, amended: ended_at is unset while the task is pending; every
\* CompleteTask or FailTask call on the task (the call that writes the
\* "completed" or "failed" text) sets it to the current time, whatever the
\* status and also when it was already set; StartTask and UpdateProgress never
\* change it.
C10_EndedAtSetByEveryEnd ==
    /\ [](\A i \in Records :
            heap[i].Status = TaskStatusPending => heap[i].EndedAt = NilTime)
    /\ [][\A i \in Records :
            /\ heap'[i].EndedAt # heap[i].EndedAt =>
                  /\ heap'[i].Status \in Terminal
                  /\ heap'[i].Progress \in {Fixed("completed"), Fixed("failed")}
                  /\ heap'[i].EndedAt = now
            /\ heap'[i].Progress \in {Fixed("completed"), Fixed("failed")}
                  /\ heap'[i].Progress # heap[i].Progress =>
                  heap'[i].EndedAt = now]_vars

\* C10, witness: a task restarted and updated after it ended; ended_at is
\* still set.
C10_Witness ==
    \E i \in Records :
        /\ heap[i].Status = TaskStatusRunning
        /\ heap[i].EndedAt # NilTime
        /\ heap[i].Progress \in ProgressSet

\* C11: every percent the estimator writes is a whole number from 5 to 95,
\* for every elapsed time, task type and data range (reversed and zero-length
\* ranges too), so a task's percent is 100 only if CompleteTask was called
\* on it.
C11_EstimatorPercentRange ==
    /\ call.elapsed > 0 => call.percent \in 5..95
    /\ \A r \in Records :
          heap[r].Percent = 100 => call.done = "closed" /\ call.out.ok

\* C11: the estimator has written 94 for a reversed range after the task's
\* operation failed, and the failed task shows that percent.
C11_Witness ==
    /\ call.span < 0
    /\ call.percent = 94
    /\ ~call.out.ok
    /\ heap[1].Status = TaskStatusFailed
    /\ heap[1].Percent = 94

\* C12: for an id that was never created, GetTask gives nil and a not-found
\* error that carries the id, and StartTask, UpdateProgress, CompleteTask and
\* FailTask leave every record as it was and make no record.
C12_UnknownIdNoEffect ==
    \A id \in IDs \ DOMAIN tasks :
        /\ GetTask(id) = NilRef
        /\ GetTaskError(id) # NoError
        /\ GetTaskError(id)[2] = id
        /\ StartTask(id) = heap
        /\ \A pr \in ProgressSet, pc \in PercentSet :
              UpdateProgress(id, pr, pc) = heap
        /\ \A r \in ResultSet : CompleteTask(id, r) = heap
        /\ \A e \in ErrorSet : FailTask(id, e) = heap

\* C12: the registry holds a started task and there is an id that was never
\* created.
C12_Witness ==
    /\ IDs \ DOMAIN tasks # {}
    /\ \E r \in Records : heap[r].Status = TaskStatusRunning

\* C13: ShouldRunAsync is true exactly when end - start is over 30 days:
\* false at 30 days 0 seconds, true at 30 days 1 second, false for a
\* zero-length and for a reversed range; run_backtest, run_backtest_managed
\* and manual download_kline all take the asynchronous path exactly then.
C13_ThresholdPolicy ==
    /\ ~ShouldRunAsync(AsyncThresholdDays * SecondsPerDayOfData)
    /\ ShouldRunAsync(AsyncThresholdDays * SecondsPerDayOfData + 1)
    /\ ~ShouldRunAsync(0)
    /\ ~ShouldRunAsync(-SecondsPerDayOfData)
    /\ \A w \in Workers :
          worker[w].pc # "idle" /\ worker[w].tool \in ManualTools =>
              (worker[w].pc \notin {"sync", "replied"}
                  <=> worker[w].span >
                          AsyncThresholdDays * SecondsPerDayOfData)

\* C13: a submit of exactly 30 days has run synchronously and one of 30 days
\* and a second has been answered with a task id.
C13_Witness ==
    \E v, w \in Workers :
        /\ worker[v].span = AsyncThresholdDays * SecondsPerDayOfData
        /\ worker[v].pc = "replied"
        /\ worker[w].span = AsyncThresholdDays * SecondsPerDayOfData + 1
        /\ worker[w].reply.class = "async"

\* C14: a submit whose range is not over the threshold runs synchronously and
\* leaves the registry as it was: no task is made and no id is issued,
\* whether the operation succeeds or fails, and the response of the call is
\* the operation's result or its error.
C14_SyncLeavesRegistry ==
    /\ [](\A w \in Workers :
            /\ (/\ worker[w].pc # "idle"
                /\ worker[w].tool \in ManualTools
                /\ worker[w].span <= AsyncThresholdDays * SecondsPerDayOfData)
                    => /\ worker[w].pc \in {"sync", "replied"}
                       /\ worker[w].id = 0
                       /\ worker[w].reply.taskId = 0
            /\ worker[w].pc = "replied" =>
                    /\ worker[w].reply.class =
                           IF worker[w].out.ok THEN "text" ELSE "error"
                    /\ worker[w].reply.text =
                           IF worker[w].out.ok
                           THEN SyncResultText(worker[w].tool, worker[w].out.val)
                           ELSE SyncErrorText(worker[w].tool, worker[w].out.val))
    /\ [][\A w \in Workers :
            worker'[w].pc \in {"sync", "replied"} /\ worker'[w] # worker[w]
                => tasks' = tasks /\ heap' = heap]_vars

\* C14: next to a task in flight, one synchronous run has returned the
\* operation's error.
C14_Witness ==
    \E v, w \in Workers :
        /\ worker[v].pc = "run"
        /\ heap[tasks[worker[v].id]].Status = TaskStatusRunning
        /\ worker[w].pc = "replied"
        /\ worker[w].reply.class = "error"
        /\ worker[w].reply.text = "exchange timeout"

\* C15: from the moment an asynchronous submit has answered with a task id,
\* the map holds a record for that id, GetTask for it never answers
\* not-found, and no step takes an id out of the map.
C15_IssuedIdStaysKnown ==
    /\ [](\A w \in Workers :
            worker[w].reply.class = "async" =>
                /\ worker[w].reply.taskId \in DOMAIN tasks
                /\ GetTask(worker[w].reply.taskId) # NilRef
                /\ GetTaskError(worker[w].reply.taskId) = NoError)
    /\ [][/\ DOMAIN tasks \subseteq DOMAIN tasks'
          /\ \A w \in Workers :
                (/\ worker[w].reply.class = "async"
                 /\ ppc = "idle"
                 /\ ppc' # "idle"
                 /\ resp'.taskId = worker[w].reply.taskId)
                    => resp'.class # "error"]_vars

\* C15: the task of an answered submit has ended and a later status poll for
\* its id has been answered with the task.
C15_Witness ==
    /\ worker[1].reply.class = "async"
    /\ worker[1].pc = "done"
    /\ ppc = "done"
    /\ resp.class = "text"
    /\ resp.taskId = worker[1].reply.taskId
    /\ resp.status \in Terminal

\* C16: when the operation of an asynchronous task has returned an error and
\* its worker has ended, the task is failed, its error is the operation's
\* error message character for character, its result is empty, and the
\* result poll answers with an error-flagged response carrying that error
\* and no result.
C16_FailureRecorded ==
    \A w \in Workers :
        worker[w].pc = "done" /\ ~worker[w].out.ok =>
            LET t == heap[tasks[worker[w].id]]
            IN  /\ t.Status = TaskStatusFailed
                /\ t.Error = worker[w].out.val
                /\ t.Result = ""
                /\ ResultResponse(t).class = "error"
                /\ ResultResponse(t).error = worker[w].out.val
                /\ ResultResponse(t).result = << >>

\* C18: the class of a result-poll response goes by the task's status alone:
\* completed, a plain response with the stored result; failed, an
\* error-flagged response with the stored error and no result; pending or
\* running, a plain still-running advisory with no result; an unknown id, an
\* error response.
C18_ResultClassByStatus ==
    ppc = "done" =>
        IF pref = NilRef
        THEN resp.class = "error"
        ELSE /\ resp.status \in {TaskStatusPending, TaskStatusRunning,
                                 TaskStatusCompleted, TaskStatusFailed}
             /\ resp.status = TaskStatusCompleted =>
                    /\ resp.class = "text"
                    /\ resp.message = ""
                    /\ resp.result = EmbedResult(heap[pref].Result)
             /\ resp.status = TaskStatusFailed =>
                    /\ resp.class = "error"
                    /\ resp.error = heap[pref].Error
                    /\ resp.result = << >>
             /\ resp.status \in {TaskStatusPending, TaskStatusRunning} =>
                    /\ resp.class = "text"
                    /\ resp.message # ""
                    /\ resp.result = << >>

\* C17: every asynchronous task whose operation has returned reaches
\* completed or failed, with no poll by any caller and with other tasks in
\* flight: its worker ends, and as it ends the task its id names is completed
\* or failed.
C17_EndsOnceOperationReturns ==
    \A w \in Workers :
        (worker[w].pc = "close")
            ~> (/\ worker[w].pc = "done"
                /\ heap[tasks[worker[w].id]].Status \in Terminal)

\* C17: both workers have ended, one task completed and one failed, and no
\* poll was ever made.
C17_Witness ==
    /\ \A w \in Workers : worker[w].pc = "done"
    /\ worker[1].id # worker[2].id
    /\ heap[tasks[worker[1].id]].Status = TaskStatusCompleted
    /\ heap[tasks[worker[2].id]].Status = TaskStatusFailed
    /\ ppc = "idle"

\* C19: FailTask changes only the status, the error, the progress text and
\* ended_at of the task it names: the percent keeps its value (a failed task
\* shows 100 only if it showed 100 before), result, started_at, params, type,
\* id and created_at keep theirs, and every other record is untouched.
C19_FailTaskFrame ==
    \A id \in DOMAIN tasks, e \in ErrorSet, r \in Records :
        LET after == FailTask(id, e)[r]
            before == heap[r]
        IN  IF r = tasks[id]
            THEN /\ after.Status = TaskStatusFailed
                 /\ after.Error = e
                 /\ after.Progress = Fixed("failed")
                 /\ after.EndedAt = now
                 /\ after.Percent = before.Percent
                 /\ after.Result = before.Result
                 /\ after.StartedAt = before.StartedAt
                 /\ after.Params = before.Params
                 /\ after.Type = before.Type
                 /\ after.ID = before.ID
                 /\ after.CreatedAt = before.CreatedAt
            ELSE after = before

\* C19: a task that was started and had reported 50 percent has failed and
\* still shows 50 percent, its started_at and an empty result.
C19_Witness ==
    \E r \in Records :
        /\ heap[r].Status = TaskStatusFailed
        /\ heap[r].Progress = Fixed("failed")
        /\ heap[r].Percent \in PercentSet
        /\ heap[r].StartedAt # NilTime
        /\ heap[r].Result = ""

\* C20: the params, id, type and created_at of a task are those CreateTask
\* gave it: no StartTask, UpdateProgress, CompleteTask or FailTask changes
\* them in any record, GetTask for an id gives the record of that id, and
\* what it reads of these fields stays the same from call to call.
C20_CreationFieldsFixed ==
    /\ [](\A id \in DOMAIN tasks :
            /\ heap[GetTask(id)].ID = id
            /\ heap[GetTask(id)].Params \in ParamSet
            /\ heap[GetTask(id)].Type \in TaskTypes
            /\ heap[GetTask(id)].CreatedAt \in 0..now)
    /\ [][/\ \A r \in Records :
                /\ heap'[r].Params = heap[r].Params
                /\ heap'[r].ID = heap[r].ID
                /\ heap'[r].Type = heap[r].Type
                /\ heap'[r].CreatedAt = heap[r].CreatedAt
          /\ tasks' = tasks =>
                \A id \in DOMAIN tasks :
                    heap'[tasks'[id]].Params = heap[GetTask(id)].Params]_vars

\* C20: a task created at time 0 was started later, completed, reported on
\* and failed, and still has the params and the created_at of its creation.
C20_Witness ==
    \E r \in Records :
        /\ heap[r].CreatedAt = 0
        /\ heap[r].StartedAt > 0
        /\ heap[r].Status = TaskStatusFailed
        /\ heap[r].Result \in ResultSet
        /\ heap[r].Percent \in PercentSet
        /\ heap[r].Params \in ParamSet

\* C21: for a task driven by its worker and its one estimator, the percent a
\* status poll reads never goes down: 0 while pending, the estimator's
\* values while running, 100 from completion on.
C21_PercentNeverDecreases ==
    [][\A r \in Records : heap'[r].Percent >= heap[r].Percent]_vars

\* C22: ListTasks(kindFilter, statusFilter) returns exactly the tasks of the
\* registry whose type is kindFilter (when it is given) and whose status is
\* statusFilter (when it is given), each once; with no filter it returns
\* every task; the total of the list response is the number returned.
C22_ListIsTheFilteredRegistry ==
    \A ty \in TypeFilters, st \in StatusFilters :
        LET found == ListTasks(DOMAIN tasks, ty, st)
            want == {id \in DOMAIN tasks :
                        /\ ty = "" \/ heap[tasks[id]].Type = ty
                        /\ st = "" \/ heap[tasks[id]].Status = st}
            listed == ListResponse(ty, st)
        IN  /\ {found[i] : i \in 1..Len(found)} = {tasks[id] : id \in want}
            /\ Len(found) = Cardinality(want)
            /\ listed.total = Cardinality(want)
            /\ Len(listed.tasks) = listed.total
            /\ ty = "" /\ st = "" => Len(found) = Cardinality(DOMAIN tasks)

\* C22: the registry holds a running backtest and a completed download; the
\* filter for running backtests lists the one and not the other.
C22_Witness ==
    /\ Cardinality(DOMAIN tasks) = 2
    /\ ListResponse("backtest", TaskStatusRunning).total = 1
    /\ ListResponse("download", TaskStatusCompleted).total = 1
    /\ ListResponse("", "").total = 2

\* C23: every worker goes StartTask, start of the estimator, the operation,
\* close of the done channel, then CompleteTask or FailTask, on the success
\* and on the failure path; so the estimator never writes while the task is
\* pending, and the done channel is closed once, after the operation has
\* returned and before the task is ended.
C23_WorkerOrder ==
    /\ [](\A w \in Workers :
            /\ worker[w].pc \in {"idle", "sync", "replied", "StartTask",
                                  "ProgressEstimator"}
                   => est[w].done = "none"
            /\ worker[w].pc \in {"run", "close"} => est[w].done = "open"
            /\ worker[w].pc \in {"finish", "done"} => est[w].done = "closed")
    /\ [][\A w \in Workers :
            /\ worker'[w].pc # worker[w].pc =>
                    <<worker[w].pc, worker'[w].pc>> \in
                        {<<"idle", "StartTask">>,
                         <<"StartTask", "ProgressEstimator">>,
                         <<"ProgressEstimator", "run">>,
                         <<"run", "close">>,
                         <<"close", "finish">>,
                         <<"finish", "done">>}
            /\ est[w].done = "closed" => est'[w].done = "closed"
            /\ est[w].pc = "tick" /\ est'[w].pc = "select" =>
                    heap[tasks[worker[w].id]].Status # TaskStatusPending]_vars

\* C24: once its done channel is closed the estimator goroutine exits in the
\* end, given a select that is fair to the closed channel, and it never
\* exits while the channel is open.
C24_EstimatorExits ==
    /\ \A w \in Workers : (est[w].done = "closed") ~> (est[w].pc = "exited")
    /\ [](\A w \in Workers : est[w].pc = "exited" => est[w].done = "closed")

\* C24: one estimator has exited, after a tick it took with the channel
\* closed, while the other still waits with its channel open.
C24_Witness ==
    \E v, w \in Workers :
        /\ est[v].pc = "exited"
        /\ heap[tasks[worker[v].id]].Status \in Terminal
        /\ heap[tasks[worker[v].id]].Percent \in 5..95
        /\ est[w].pc = "select"
        /\ est[w].done = "open"

\* C25: for every task type and data range the estimated total is the larger
\* of days x seconds-per-day and 5 seconds, to the millisecond, with 0.5
\* seconds per day for backtest and backtest_managed, 2.0 for download and
\* 1.0 for any other type; the tick interval is 2% of it within 1 to 10
\* seconds; a reversed or zero-length range gives 5 seconds and a 1-second
\* tick.  (864 * milliseconds = 5 * seconds of range * doubled rate.)
C25_EstimateAndTick ==
    call.pc \in {"select", "exited"} =>
        LET rate2 == IF call.taskType \in {"backtest", "backtest_managed"}
                     THEN 1
                     ELSE IF call.taskType = "download" THEN 4 ELSE 2
            exact == call.span * rate2 * 5
            total == call.estimatedTotal
            tick  == call.tickInterval
        IN  /\ IF exact < 5000 * 864
               THEN total = 5000
               ELSE total * 864 <= exact /\ exact < (total + 1) * 864
            /\ IF total < 50 * 1000
               THEN tick = 1000
               ELSE IF total > 50 * 10000
               THEN tick = 10000
               ELSE tick * 50 <= total /\ total < (tick + 1) * 50
            /\ call.span <= 0 => total = 5000 /\ tick = 1000

\* C25: the estimator of a 74-day download runs with a total of 148 seconds
\* and a tick of 2.96 seconds.
C25_Witness ==
    /\ call.pc = "select"
    /\ call.taskType = "download"
    /\ call.span = 74 * SecondsPerDayOfData
    /\ call.estimatedTotal = 148000
    /\ call.tickInterval = 2960

\* C26: the status poll has a response for every task of the registry in
\* every reachable state and does not crash, a task with ended_at set and
\* started_at unset included.
C26_StatusPollNeverCrashes ==
    \A id \in DOMAIN tasks :
        StatusResponse(heap[GetTask(id)]).class = "text"

\* C27: the text stored in a task that ended is the text a synchronous call of
\* the task's own operation returns for the same outcome: a completed task
\* of run_backtest, run_backtest_managed or manual download_kline holds the
\* synchronous result text of one of its operation's results, a failed one
\* the synchronous error text of one of its operation's errors.
C27_SameTextBothPaths ==
    \A r \in Records :
        LET t == heap[r]
            tool == t.Params[1]
        IN  tool \in {"run_backtest", "run_backtest_managed",
                      "download_kline"} =>
              /\ t.Status = TaskStatusCompleted =>
                    \E o \in Outcomes :
                        o.ok /\ t.Result = SyncResultText(tool, o.val)
              /\ t.Status = TaskStatusFailed =>
                    \E o \in Outcomes :
                        ~o.ok /\ t.Error = SyncErrorText(tool, o.val)

\* C28: tasks in flight at once are independent: a step of the worker or of
\* the estimator of one task (its StartTask, UpdateProgress, CompleteTask or
\* FailTask) leaves the record of every other task as it was. The task of
\* worker w is the w-th record created.
C28_TasksIndependent ==
    [][\A w \in Workers :
          /\ worker[w].pc # "idle"
          /\ worker'[w] # worker[w] \/ est'[w] # est[w]
          => \A r \in Records : r # w => heap'[r] = heap[r]]_vars

\* An instance start_trade answered "started" for, and an instance a
\* stop_trade took out of the map.
TradeStarted(i) ==
    \E q \in Requesters :
        /\ req[q].tool = "start_trade"
        /\ req[q].pc = "done"
        /\ req[q].reply.status = "started"
        /\ req[q].inst = i

TradeRemoved(i) ==
    \E q \in Requesters : req[q].tool = "stop_trade" /\ req[q].inst = i

\* C29: every instance start_trade started stays in the map under its own
\* trade id, found by trade_status, until a stop_trade for that id removes
\* it: no later start_trade replaces the entry of a running instance.
C29_InstanceStaysRegistered ==
    \A i \in DOMAIN instances :
        TradeStarted(i) /\ ~TradeRemoved(i) =>
            /\ instances[i].ID \in DOMAIN trades
            /\ trades[instances[i].ID] = i
            /\ TradeStatusOf(instances[i].ID).class = "text"
            /\ TradeStatusOf(instances[i].ID).script = instances[i].Script

\* C30: of the stop_trade requests that run at once for one trade id, one
\* finds the instance, takes it out of the map and calls Stop on it; the
\* others get "trade instance not found"; Stop is called at most once on an
\* instance, and only by the request that removed it.
C30_OneStopPerInstance ==
    /\ [](\A i \in DOMAIN instances :
            /\ instances[i].trade.stops <= 1
            /\ Cardinality({q \in Requesters :
                   req[q].tool = "stop_trade" /\ req[q].inst = i}) <= 1
            /\ instances[i].trade.stops = 1 =>
                   /\ TradeRemoved(i)
                   /\ \A id \in DOMAIN trades : trades[id] # i)
    /\ [](\A q \in Requesters :
            req[q].tool = "stop_trade" /\ req[q].inst = NilRef =>
                req[q].reply = TradeError("trade instance not found"))
    /\ [][\A q \in Requesters :
            req[q].pc = "idle" /\ req'[q].tool = "stop_trade" =>
                IF req'[q].tradeID \in DOMAIN trades
                THEN /\ req'[q].inst = trades[req'[q].tradeID]
                     /\ req'[q].tradeID \notin DOMAIN trades'
                ELSE /\ req'[q].inst = NilRef
                     /\ trades' = trades]_vars

\* C30: two stop_trade requests for the id of a running instance have both
\* ended, one with "stopped" and one with "trade instance not found", and
\* Stop was called once.
C30_Witness ==
    \E p, q \in Requesters :
        /\ p # q
        /\ req[p].tool = "stop_trade" /\ req[q].tool = "stop_trade"
        /\ req[p].tradeID = req[q].tradeID
        /\ req[p].pc = "done" /\ req[q].pc = "done"
        /\ req[p].reply.status = "stopped"
        /\ req[q].reply = TradeError("trade instance not found")
        /\ instances[req[p].inst].trade.stops = 1

====
